---------------------------- MODULE Spec2Model ----------------------------
(***************************************************************************)
(* Model of waybacktweets/api/visualize.py: class HTMLTweetsVisualizer.     *)
(*                                                                         *)
(* The builder holds username, json_path (the loaded records) and          *)
(* html_file_path.  generate() renders the records into one HTML document, *)
(* save() writes a string to html_file_path.  The emitted document carries *)
(* client-side script (showPage, the DOMContentLoaded handler, one change  *)
(* listener per accordion); that script is modelled as the actions of the  *)
(* browser that has the document open.                                     *)
(*                                                                         *)
(* Representation.                                                         *)
(*  - A JSON value is a pair <<kind, n>>: <<"null",0>>, <<"bool",0|1>>,    *)
(*    <<"num",n>>, and <<"str",n>> for the string number n, where          *)
(*    <<"str",0>> is the empty string.  Field contents are opaque: the     *)
(*    model does not look inside a string, so markup inside field values   *)
(*    (which the code interpolates unescaped) is outside the model.        *)
(*  - A tweet record is a function from the field names it has to values.  *)
(*  - The HTML document is the tree of the elements the html += lines      *)
(*    emit, in document order.  An element id is a tuple of the pieces the *)
(*    f-string joins: <<"page_", 3>>, <<"tab_", 7, <<"Parsed","_",...>>>>. *)
(*  - A file is the sequence of its bytes; a Python str is the sequence of *)
(*    its code points.                                                     *)
(***************************************************************************)
EXTENDS Integers, Sequences, FiniteSets, TLC

VARIABLES
    username,           \* self.username
    json_path,          \* self.json_path: the records loaded at construction
    html_file_path,     \* self.html_file_path
    fs,                 \* the file at html_file_path: whether it exists, its bytes
    ret,                \* outcome of the last call on the builder
    generated,          \* every string generate() has returned so far
    document,           \* the document the browser has open, or NoDocument
    loadHandler,        \* DOMContentLoaded handler: "none", "pending", "done", "threw"
    pageDisplay,        \* style.display of the k-th page container
    linkSelected,       \* whether the k-th pagination link has class selected
    placeholderDisplay, \* style.display of <p id="loading_first_page">
    tabChecked,         \* checked state of each accordion checkbox
    iframeSrc,          \* src of each accordion iframe
    loadingDisplay,     \* style.display of each accordion's Loading... div
    iframeDisplay,      \* style.display of each accordion iframe
    events              \* accordion events (changes, iframe loads) dispatched so far

builderVars == <<username, json_path, html_file_path, fs, ret, generated>>
browserVars == <<document, loadHandler, pageDisplay, linkSelected,
                 placeholderDisplay, tabChecked, iframeSrc, loadingDisplay,
                 iframeDisplay, events>>
vars == <<username, json_path, html_file_path, fs, ret, generated,
          document, loadHandler, pageDisplay, linkSelected,
          placeholderDisplay, tabChecked, iframeSrc, loadingDisplay,
          iframeDisplay, events>>

-----------------------------------------------------------------------------
(* Bounds of the model *)

\* largest number of loaded records (49 = two full pages and one record)
MaxRecords == 49
\* identities of the records start at an offset in 0..MaxShift
MaxShift == 1
\* largest number of records of a builder whose files are modelled
MaxIORecords == 2
\* longest string passed to save()
MaxLen == 2
\* largest number of records of a document whose accordions are operated
MaxFrameRecords == 25
\* accordion events (checkbox changes, iframe loads) dispatched in one
\* browser session
MaxEvents == 2

-----------------------------------------------------------------------------
(* Values *)

None == <<"null", 0>>
NoFile == [exists |-> FALSE, bytes |-> << >>]
NoDocument == [none |-> TRUE]

Min(a, b) == IF a < b THEN a ELSE b

\* bool(value) for a value decoded from JSON
Truthy(v) ==
    CASE v[1] = "null" -> FALSE
      [] v[1] = "bool" -> v[2] = 1
      [] v[1] = "num"  -> v[2] # 0
      [] v[1] = "str"  -> v[2] # 0
      [] OTHER         -> TRUE

\* str(value), as an f-string or str.format interpolates it
pystr(v) ==
    CASE v[1] = "null" -> <<"lit", "None">>
      [] v[1] = "bool" -> <<"lit", IF v[2] = 1 THEN "True" ELSE "False">>
      [] v[1] = "num"  -> <<"digits", v[2]>>
      [] OTHER         -> v

\* waybacktweets.utils.timestamp_parser: the readable form of a timestamp
timestamp_parser(v) == <<"time", v[2]>>

Fields ==
    << "archived_tweet_url", "parsed_archived_tweet_url",
       "original_tweet_url", "parsed_tweet_url",
       "available_tweet_text", "available_tweet_is_RT",
       "available_tweet_info", "archived_urlkey", "archived_timestamp",
       "archived_mimetype", "archived_statuscode", "archived_digest",
       "archived_length" >>

FieldSet == {Fields[k] : k \in 1..Len(Fields)}


-----------------------------------------------------------------------------
(* generate(): pagination *)

\* tweets_per_page = 24
tweets_per_page == 24

\* mutant of total_pages: floor division without the rounding term
total_pages_floor(n) == n \div tweets_per_page

\* total_pages = (len(self.json_path) + tweets_per_page - 1) // tweets_per_page
total_pages(n) == (n + tweets_per_page - 1) \div tweets_per_page

\* start_index = (page - 1) * tweets_per_page
start_index(page) == (page - 1) * tweets_per_page

\* end_index = min(start_index + tweets_per_page, len(self.json_path))
end_index(page, n) == Min(start_index(page) + tweets_per_page, n)

\* range(start_index, end_index): the zero-based indexes of the page's records
PageRange(page, n) ==
    LET s == start_index(page)
        e == end_index(page, n)
    IN  [j \in 1..(IF e > s THEN e - s ELSE 0) |-> s + j - 1]

-----------------------------------------------------------------------------
(* generate(): one tweet card *)

\* the keys of iframe_src, in insertion order; a blank is a token of its own
IframeKeys ==
    << <<"Archived", " ", "Tweet">>,
       <<"Parsed", " ", "Archived", " ", "Tweet">>,
       <<"Original", " ", "Tweet">>,
       <<"Parsed", " ", "Tweet">> >>

\* the record field each key of iframe_src maps to
IframeFields ==
    << "archived_tweet_url", "parsed_archived_tweet_url",
       "original_tweet_url", "parsed_tweet_url" >>

\* key.replace(" ", "_")
key_cleaned(key) == [p \in 1..Len(key) |-> IF key[p] = " " THEN "_" ELSE key[p]]

\* the keys generate() looks up in a record, in the order it looks them up
KeysRead(tweet) ==
    IF "available_tweet_text" \notin DOMAIN tweet
    THEN << "available_tweet_text" >>
    ELSE << "available_tweet_text" >>
         \o (IF ~Truthy(tweet["available_tweet_text"])
             THEN IframeFields ELSE << >>)
         \o << "available_tweet_text" >>
         \o (IF Truthy(tweet["available_tweet_text"])
             THEN << "available_tweet_text", "available_tweet_is_RT",
                     "available_tweet_info" >>
             ELSE << >>)
         \o << "archived_tweet_url", "parsed_archived_tweet_url",
               "original_tweet_url", "parsed_tweet_url", "archived_urlkey",
               "archived_timestamp", "archived_mimetype",
               "archived_statuscode", "archived_digest", "archived_length" >>

\* whether rendering the record raises KeyError
RaisesKeyError(tweet) ==
    LET ks == KeysRead(tweet)
    IN  \E p \in 1..Len(ks) : ks[p] \notin DOMAIN tweet

\* the key of the KeyError rendering the record raises
MissingKey(tweet) ==
    LET ks == KeysRead(tweet)
        p  == CHOOSE q \in 1..Len(ks) :
                  /\ ks[q] \notin DOMAIN tweet
                  /\ \A r \in 1..(q - 1) : ks[r] \in DOMAIN tweet
    IN  ks[p]

\* one <div class="accordion"> and the <script> that follows it
Accordion(index, key, value) ==
    [ input   |-> [id |-> <<"tab_", index, key_cleaned(key)>>],
      label   |-> [for |-> <<"tab_", index, key_cleaned(key)>>, key |-> key],
      loading |-> [id |-> <<"loading_", index, key_cleaned(key)>>],
      iframe  |-> [id     |-> <<"iframe_", index, key_cleaned(key)>>,
                   src    |-> None,
                   style  |-> "display: none;",
                   onload |-> <<"loading_", index, key_cleaned(key)>>],
      script  |-> [tab     |-> <<"tab_", index, key_cleaned(key)>>,
                   loading |-> <<"loading_", index, key_cleaned(key)>>,
                   iframe  |-> <<"iframe_", index, key_cleaned(key)>>,
                   url     |-> pystr(value)] ]

\* if not tweet["available_tweet_text"]: the four accordions
AccordionBlock(tweet, index) ==
    IF ~Truthy(tweet["available_tweet_text"])
    THEN [c \in 1..Len(IframeKeys) |->
              Accordion(index, IframeKeys[c], tweet[IframeFields[c]])]
    ELSE << >>

\* mutant of ContentBlock: the condition tests for None instead of truth
ContentBlock_notNone(tweet) ==
    IF tweet["available_tweet_text"] # None
    THEN << [label |-> "Available Tweet Content:",
             text  |-> pystr(tweet["available_tweet_text"])],
            [label |-> "Available Tweet Is Retweet:",
             text  |-> pystr(tweet["available_tweet_is_RT"])],
            [label |-> "Available Tweet Username:",
             text  |-> pystr(tweet["available_tweet_info"])] >>
    ELSE << >>

\* if tweet["available_tweet_text"]: the three plain-text fields
ContentBlock(tweet) ==
    IF Truthy(tweet["available_tweet_text"])
    THEN << [label |-> "Available Tweet Content:",
             text  |-> pystr(tweet["available_tweet_text"])],
            [label |-> "Available Tweet Is Retweet:",
             text  |-> pystr(tweet["available_tweet_is_RT"])],
            [label |-> "Available Tweet Username:",
             text  |-> pystr(tweet["available_tweet_info"])] >>
    ELSE << >>

\* a <p><strong>label</strong> <a href=url target="_blank">url</a></p> line
LinkLine(label, value) ==
    [label |-> label, href |-> pystr(value), text |-> pystr(value)]

\* a <p><strong>label</strong> text</p> line
TextLine(label, text) == [label |-> label, text |-> text]

\* mutant of AlwaysBlock: the digest line shows the length
AlwaysBlock_digest(tweet) ==
    << LinkLine("Archived Tweet:", tweet["archived_tweet_url"]),
       LinkLine("Parsed Archived Tweet:", tweet["parsed_archived_tweet_url"]),
       LinkLine("Original Tweet:", tweet["original_tweet_url"]),
       LinkLine("Parsed Tweet:", tweet["parsed_tweet_url"]),
       TextLine("Archived URL Key:", pystr(tweet["archived_urlkey"])),
       [ label |-> "Archived Timestamp:",
         text  |-> timestamp_parser(tweet["archived_timestamp"]),
         raw   |-> pystr(tweet["archived_timestamp"]) ],
       TextLine("Archived mimetype:", pystr(tweet["archived_mimetype"])),
       TextLine("Archived Statuscode:", pystr(tweet["archived_statuscode"])),
       TextLine("Archived Digest:", pystr(tweet["archived_length"])),
       TextLine("Archived Length:", pystr(tweet["archived_length"])) >>

\* the lines every card ends with
AlwaysBlock(tweet) ==
    << LinkLine("Archived Tweet:", tweet["archived_tweet_url"]),
       LinkLine("Parsed Archived Tweet:", tweet["parsed_archived_tweet_url"]),
       LinkLine("Original Tweet:", tweet["original_tweet_url"]),
       LinkLine("Parsed Tweet:", tweet["parsed_tweet_url"]),
       TextLine("Archived URL Key:", pystr(tweet["archived_urlkey"])),
       [ label |-> "Archived Timestamp:",
         text  |-> timestamp_parser(tweet["archived_timestamp"]),
         raw   |-> pystr(tweet["archived_timestamp"]) ],
       TextLine("Archived mimetype:", pystr(tweet["archived_mimetype"])),
       TextLine("Archived Statuscode:", pystr(tweet["archived_statuscode"])),
       TextLine("Archived Digest:", pystr(tweet["archived_digest"])),
       TextLine("Archived Length:", pystr(tweet["archived_length"])) >>

\* one <div class="tweet">
TweetDiv(tweet, index) ==
    [ accordions |-> AccordionBlock(tweet, index),
      content    |-> ContentBlock(tweet),
      fields     |-> AlwaysBlock(tweet) ]

-----------------------------------------------------------------------------
(* generate(): the document *)

\* mutant of PageDiv: the accordions are numbered by position on the page
PageDiv_pageIndex(records, page) ==
    LET range == PageRange(page, Len(records))
    IN  [ id     |-> <<"page_", page>>,
          style  |-> "display:none;",
          tweets |-> [j \in 1..Len(range) |->
                          TweetDiv(records[range[j] + 1], j - 1)] ]

\* one <div id="page_{page}" style="display:none;"> and its container
PageDiv(records, page) ==
    LET range == PageRange(page, Len(records))
    IN  [ id     |-> <<"page_", page>>,
          style  |-> "display:none;",
          tweets |-> [j \in 1..Len(range) |->
                          TweetDiv(records[range[j] + 1], range[j])] ]

\* <a href="#" id="page_link_{page}" onclick="showPage({page})">{page}</a>
PageLink(page) ==
    [id |-> <<"page_link_", page>>, onclick |-> page, text |-> page]

\* the page containers: for page in range(1, total_pages + 1)
Pages(records) ==
    [page \in 1..total_pages(Len(records)) |-> PageDiv(records, page)]

\* mutant of Pagination: for page in range(1, total_pages)
Pagination_short(records) ==
    [page \in 1..(total_pages(Len(records)) - 1) |-> PageLink(page)]

\* the navigation: for page in range(1, total_pages + 1)
Pagination(records) ==
    [page \in 1..total_pages(Len(records)) |-> PageLink(page)]

\* the document generate() returns when no lookup fails
Html(uname, records) ==
    [ title      |-> <<"@", uname, "'s archived tweets">>,
      h1         |-> <<"@", uname, "'s archived tweets">>,
      loading    |-> [id |-> <<"loading_first_page">>],
      pages      |-> Pages(records),
      pagination |-> Pagination(records),
      script     |-> [total_pages |-> total_pages(Len(records))] ]

\* mutant of generate: a record that lacks a key ends the rendering, and the
\* document built so far is returned
generate_partial(uname, records) ==
    LET bad == {i \in 1..Len(records) : RaisesKeyError(records[i])}
    IN  IF bad = {}
        THEN [op |-> "generate", ok |-> TRUE, value |-> Html(uname, records)]
        ELSE LET first == CHOOSE i \in bad : \A j \in bad : i <= j
             IN  [op |-> "generate", ok |-> TRUE,
                  value |-> Html(uname, SubSeq(records, 1, first - 1))]

\* generate(): the string it returns, or the KeyError of the first record,
\* in index order, that lacks a key the loop looks up
generate(uname, records) ==
    LET bad == {i \in 1..Len(records) : RaisesKeyError(records[i])}
    IN  IF bad = {}
        THEN [op |-> "generate", ok |-> TRUE, value |-> Html(uname, records)]
        ELSE LET first == CHOOSE i \in bad : \A j \in bad : i <= j
             IN  [op |-> "generate", ok |-> FALSE, exc |-> "KeyError",
                  key |-> MissingKey(records[first]), index |-> first - 1]

-----------------------------------------------------------------------------
(* save(): text-mode file output *)

\* os.linesep on the platform the program runs on, as bytes
LineSep == << 10 >>

\* whether the UTF-8 codec (errors="strict") accepts the code point
Encodable(cp) == cp < 55296 \/ cp > 57343

\* the UTF-8 bytes of one code point
Utf8(cp) ==
    IF cp < 128 THEN << cp >>
    ELSE IF cp < 2048 THEN << 192 + (cp \div 64), 128 + (cp % 64) >>
    ELSE IF cp < 65536
         THEN << 224 + (cp \div 4096), 128 + ((cp \div 64) % 64),
                 128 + (cp % 64) >>
         ELSE << 240 + (cp \div 262144), 128 + ((cp \div 4096) % 64),
                 128 + ((cp \div 64) % 64), 128 + (cp % 64) >>

\* what TextIOWrapper.write puts in the file: "\n" becomes os.linesep, every
\* other code point its UTF-8 bytes
RECURSIVE TextWrite(_)
TextWrite(s) ==
    IF s = << >> THEN << >>
    ELSE (IF Head(s) = 10 THEN LineSep ELSE Utf8(Head(s))) \o TextWrite(Tail(s))

\* mutant of OpenForWrite: open(path, "a")
OpenForWrite_append(old) == [exists |-> TRUE, bytes |-> old.bytes]

\* the file after open(path, "w"): created or truncated
OpenForWrite(old) == [exists |-> TRUE, bytes |-> << >>]

-----------------------------------------------------------------------------
(* Inputs *)

Usernames == {"jack", "claromes"}

\* the code points strings passed to save() are made of:
\* "\n", "a", U+00E9, U+2197 (in the footer generate() emits), a lone
\* surrogate U+D83D, U+1F600
CodePoints == {10, 97, 233, 8599, 55357, 128512}

RECURSIVE StringsOfLen(_)
StringsOfLen(n) ==
    IF n = 0 THEN {<< >>}
    ELSE {<< c >> \o t : c \in CodePoints, t \in StringsOfLen(n - 1)}

Contents == UNION {StringsOfLen(n) : n \in 0..MaxLen}

\* the falsy values a record's available_tweet_text takes, by record identity
FalsyText(n) ==
    CASE n % 3 = 0 -> None
      [] n % 3 = 1 -> <<"str", 0>>
      [] OTHER     -> <<"bool", 0>>

\* the well-formed record of identity n >= 1: every field a string of its
\* own, the retweet flag a boolean
MkTweet(n, falsy) ==
    [f \in FieldSet |->
        LET k == CHOOSE q \in 1..Len(Fields) : Fields[q] = f
        IN  CASE f = "available_tweet_text" ->
                     IF falsy THEN FalsyText(n) ELSE <<"str", n * Len(Fields) + k>>
              [] f = "available_tweet_is_RT" -> <<"bool", n % 2>>
              [] OTHER -> <<"str", n * Len(Fields) + k>>]

\* the record without one of its fields
Without(tweet, f) == [g \in (DOMAIN tweet) \ {f} |-> tweet[g]]

NoDefect == [pos |-> 0 - 1, field |-> "none"]

\* n records: the record at zero-based position i has identity i + shift + 1,
\* its text is falsy iff bit (i mod 2) of mask is set, and the record at
\* defect.pos lacks defect.field
RecordList(n, shift, mask, defect) ==
    [j \in 1..n |->
        LET i == j - 1
            t == MkTweet(i + shift + 1, (mask \div (1 + (i % 2))) % 2 = 1)
        IN  IF i = defect.pos THEN Without(t, defect.field) ELSE t]

\* positions at which a defective record is placed: the first and the last
\* record of every page
DefectPositions(n) ==
    {i \in 0..(n - 1) :
        i % tweets_per_page = 0 \/ (i + 1) % tweets_per_page = 0 \/ i = n - 1}

Defects(n) == {NoDefect} \cup [pos : DefectPositions(n), field : FieldSet]

-----------------------------------------------------------------------------
(* The builder *)

NoCall == [op |-> "none"]

\* the browser has no document open
BrowserIdle ==
    /\ document = NoDocument
    /\ loadHandler = "none"
    /\ pageDisplay = << >>
    /\ linkSelected = << >>
    /\ placeholderDisplay = ""
    /\ tabChecked = << >>
    /\ iframeSrc = << >>
    /\ loadingDisplay = << >>
    /\ iframeDisplay = << >>
    /\ events = 0

\* __init__: the state after construction
Constructed(uname, records, path, file) ==
    /\ username = uname
    /\ json_path = records
    /\ html_file_path = path
    /\ fs = file
    /\ ret = NoCall
    /\ generated = {}

\* mutant of Generate: the call consumes the first record
Generate_consuming ==
    /\ ret' = generate(username, json_path)
    /\ generated' = IF ret'.ok THEN generated \cup {ret'.value} ELSE generated
    /\ json_path' = IF json_path = << >> THEN json_path ELSE Tail(json_path)
    /\ UNCHANGED <<username, html_file_path, fs>>
    /\ UNCHANGED browserVars

\* a call of generate()
Generate ==
    /\ ret' = generate(username, json_path)
    /\ generated' = IF ret'.ok THEN generated \cup {ret'.value} ELSE generated
    /\ UNCHANGED <<username, json_path, html_file_path, fs>>
    /\ UNCHANGED browserVars

\* a call of save(html_content)
Save(html_content) ==
    /\ IF html_file_path = None
       THEN /\ fs' = fs
            /\ ret' = [op |-> "save", ok |-> FALSE, exc |-> "TypeError",
                       arg |-> html_content]
       ELSE IF \E p \in 1..Len(html_content) : ~Encodable(html_content[p])
       THEN /\ fs' = OpenForWrite(fs)
            /\ ret' = [op |-> "save", ok |-> FALSE,
                       exc |-> "UnicodeEncodeError", arg |-> html_content]
       ELSE /\ fs' = [OpenForWrite(fs) EXCEPT
                         !.bytes = @ \o TextWrite(html_content)]
            /\ ret' = [op |-> "save", ok |-> TRUE, arg |-> html_content]
    /\ UNCHANGED <<username, json_path, html_file_path, generated>>
    /\ UNCHANGED browserVars

\* builders over the record lists of the family, no file involved: every
\* well-formed list under every username, and every list with one defective
\* record
InitGen ==
    /\ \/ \E uname \in Usernames, n \in 0..MaxRecords, shift \in 0..MaxShift,
             mask \in 0..3 :
             Constructed(uname, RecordList(n, shift, mask, NoDefect),
                         None, NoFile)
       \/ \E n \in 0..MaxRecords, mask \in 0..3 :
             \E defect \in Defects(n) \ {NoDefect} :
                Constructed("jack", RecordList(n, 0, mask, defect),
                            None, NoFile)
    /\ BrowserIdle

NextGen == Generate

SpecGen == InitGen /\ [][NextGen]_vars

\* the builder's lifecycle: builders over short record lists, with or without
\* an output path, the file there or not; generate() and save() in any order
Init ==
    /\ \E n \in 0..MaxIORecords, mask \in 0..3,
          path \in {None, <<"path", 1>>},
          file \in {NoFile, [exists |-> TRUE, bytes |-> << 97, 10 >>]} :
             Constructed("jack", RecordList(n, 0, mask, NoDefect), path, file)
    /\ BrowserIdle

Next ==
    \/ Generate
    \/ \E html_content \in Contents : Save(html_content)

Spec == Init /\ [][Next]_vars

-----------------------------------------------------------------------------
(* The emitted document in a browser *)

\* An id's first piece ("page_", "page_link_", "tab_", "loading_",
\* "iframe_", "loading_first_page") differs between the kinds of element, so
\* document.getElementById is modelled by one lookup per kind.  Each returns
\* the first element of the kind, in document order, that has the id, and
\* Null when there is none.  A page container and a pagination link are named
\* by their position k, an accordion by <<k, j, c>>: the c-th accordion of the
\* j-th card of the k-th page container.

Null == << >>

\* the accordions of a document
Frames(doc) ==
    UNION {UNION {{<<k, j, c>> :
                      c \in 1..Len(doc.pages[k].tweets[j].accordions)} :
                  j \in 1..Len(doc.pages[k].tweets)} :
           k \in 1..Len(doc.pages)}

AccordionAt(doc, f) == doc.pages[f[1]].tweets[f[2]].accordions[f[3]]

\* f comes before g in document order, or is g
Precedes(f, g) ==
    \/ f[1] < g[1]
    \/ f[1] = g[1] /\ f[2] < g[2]
    \/ f[1] = g[1] /\ f[2] = g[2] /\ f[3] <= g[3]

\* the first of a set of accordions, in document order
FirstFrame(S) == CHOOSE f \in S : \A g \in S : Precedes(f, g)

\* the last of a set of accordions, in document order
LastFrame(S) == CHOOSE f \in S : \A g \in S : Precedes(g, f)

PageById(doc, id) ==
    LET S == {k \in 1..Len(doc.pages) : doc.pages[k].id = id}
    IN  IF S = {} THEN Null ELSE <<CHOOSE k \in S : \A m \in S : k <= m>>

LinkById(doc, id) ==
    LET S == {k \in 1..Len(doc.pagination) : doc.pagination[k].id = id}
    IN  IF S = {} THEN Null ELSE <<CHOOSE k \in S : \A m \in S : k <= m>>

TabById(doc, id) ==
    LET S == {f \in Frames(doc) : AccordionAt(doc, f).input.id = id}
    IN  IF S = {} THEN Null ELSE FirstFrame(S)

LoadingById(doc, id) ==
    LET S == {f \in Frames(doc) : AccordionAt(doc, f).loading.id = id}
    IN  IF S = {} THEN Null ELSE FirstFrame(S)

IframeById(doc, id) ==
    LET S == {f \in Frames(doc) : AccordionAt(doc, f).iframe.id = id}
    IN  IF S = {} THEN Null ELSE FirstFrame(S)

\* the loop of showPage from page i on: hide the page, unmark its link.  A
\* lookup that finds no element makes the next statement throw TypeError:
\* the function stops there, and what it has done so far stays done.
RECURSIVE HidePagesFrom(_, _, _, _)
HidePagesFrom(doc, i, display, selected) ==
    IF i > doc.script.total_pages
    THEN [ok |-> TRUE, display |-> display, selected |-> selected]
    ELSE LET pg == PageById(doc, <<"page_", i>>)
             ln == LinkById(doc, <<"page_link_", i>>)
         IN  IF pg = Null
             THEN [ok |-> FALSE, display |-> display, selected |-> selected]
             ELSE IF ln = Null
             THEN [ok |-> FALSE,
                   display  |-> [display EXCEPT ![pg[1]] = "none"],
                   selected |-> selected]
             ELSE HidePagesFrom(doc, i + 1,
                                [display EXCEPT ![pg[1]] = "none"],
                                [selected EXCEPT ![ln[1]] = FALSE])

\* mutant of showPage: the loop stops before the last page (i < total_pages)
showPage_skipLast(doc, page, display, selected) ==
    LET shorter == [doc EXCEPT !.script.total_pages = @ - 1]
        hidden  == HidePagesFrom(shorter, 1, display, selected)
        pg      == PageById(doc, <<"page_", page>>)
        ln      == LinkById(doc, <<"page_link_", page>>)
    IN  IF ~hidden.ok THEN hidden
        ELSE IF pg = Null THEN [hidden EXCEPT !.ok = FALSE]
        ELSE IF ln = Null
        THEN [ok |-> FALSE,
              display  |-> [hidden.display EXCEPT ![pg[1]] = "block"],
              selected |-> hidden.selected]
        ELSE [ok |-> TRUE,
              display  |-> [hidden.display EXCEPT ![pg[1]] = "block"],
              selected |-> [hidden.selected EXCEPT ![ln[1]] = TRUE]]

\* function showPage(page): the displays and marks it leaves, and whether it
\* returned (ok) or threw
showPage(doc, page, display, selected) ==
    LET hidden == HidePagesFrom(doc, 1, display, selected)
        pg     == PageById(doc, <<"page_", page>>)
        ln     == LinkById(doc, <<"page_link_", page>>)
    IN  IF ~hidden.ok THEN hidden
        ELSE IF pg = Null THEN [hidden EXCEPT !.ok = FALSE]
        ELSE IF ln = Null
        THEN [ok |-> FALSE,
              display  |-> [hidden.display EXCEPT ![pg[1]] = "block"],
              selected |-> hidden.selected]
        ELSE [ok |-> TRUE,
              display  |-> [hidden.display EXCEPT ![pg[1]] = "block"],
              selected |-> [hidden.selected EXCEPT ![ln[1]] = TRUE]]

\* the browser has parsed the document: every element is as the markup says,
\* the change listeners are registered, DOMContentLoaded is about to fire
Opened(doc) ==
    /\ document = doc
    /\ loadHandler = "pending"
    /\ pageDisplay = [k \in 1..Len(doc.pages) |-> "none"]
    /\ linkSelected = [k \in 1..Len(doc.pagination) |-> FALSE]
    /\ placeholderDisplay = ""
    /\ tabChecked = [f \in Frames(doc) |-> FALSE]
    /\ iframeSrc = [f \in Frames(doc) |-> AccordionAt(doc, f).iframe.src]
    /\ loadingDisplay = [f \in Frames(doc) |-> ""]
    /\ iframeDisplay = [f \in Frames(doc) |-> "none"]
    /\ events = 0

\* the DOMContentLoaded handler: showPage(1), then hide the placeholder
DOMContentLoaded ==
    /\ loadHandler = "pending"
    /\ LET shown == showPage(document, 1, pageDisplay, linkSelected)
       IN  /\ pageDisplay' = shown.display
           /\ linkSelected' = shown.selected
           /\ placeholderDisplay' = IF shown.ok THEN "none"
                                    ELSE placeholderDisplay
           /\ loadHandler' = IF shown.ok THEN "done" ELSE "threw"
    /\ UNCHANGED <<document, tabChecked, iframeSrc, loadingDisplay,
                   iframeDisplay, events>>
    /\ UNCHANGED builderVars

\* a click on the k-th pagination link: onclick="showPage({page})"
ClickPageLink(k) ==
    /\ loadHandler # "pending"
    /\ k \in 1..Len(document.pagination)
    /\ LET shown == showPage(document, document.pagination[k].onclick,
                             pageDisplay, linkSelected)
       IN  /\ pageDisplay' = shown.display
           /\ linkSelected' = shown.selected
    /\ UNCHANGED <<document, loadHandler, placeholderDisplay, tabChecked,
                   iframeSrc, loadingDisplay, iframeDisplay, events>>
    /\ UNCHANGED builderVars

\* the accordions whose script registered its change listener on the
\* checkbox of accordion f
ListenersOn(doc, f) ==
    {g \in Frames(doc) : TabById(doc, AccordionAt(doc, g).script.tab) = f}

\* the user toggles the checkbox of accordion f, which is on the displayed
\* page; every change listener registered on it runs:
\*     if (this.checked) { loading.style.display = 'block'; iframe.src = url }
\* A listener whose lookup finds no element throws at that statement.
ChangeTab(f) ==
    /\ loadHandler # "pending"
    /\ events < MaxEvents
    /\ f \in Frames(document)
    /\ pageDisplay[f[1]] = "block"
    /\ tabChecked' = [tabChecked EXCEPT ![f] = ~tabChecked[f]]
    /\ LET run == IF tabChecked'[f] THEN ListenersOn(document, f) ELSE {}
           showsLoading(h) ==
               {g \in run :
                   LoadingById(document, AccordionAt(document, g).script.loading) = h}
           setsSrc(h) ==
               {g \in run :
                   /\ LoadingById(document, AccordionAt(document, g).script.loading) # Null
                   /\ IframeById(document, AccordionAt(document, g).script.iframe) = h}
       IN  /\ loadingDisplay' =
                 [h \in DOMAIN loadingDisplay |->
                     IF showsLoading(h) # {} THEN "block" ELSE loadingDisplay[h]]
           /\ iframeSrc' =
                 [h \in DOMAIN iframeSrc |->
                     IF setsSrc(h) # {}
                     THEN AccordionAt(document, LastFrame(setsSrc(h))).script.url
                     ELSE iframeSrc[h]]
    /\ events' = events + 1
    /\ UNCHANGED <<document, loadHandler, pageDisplay, linkSelected,
                   placeholderDisplay, iframeDisplay>>
    /\ UNCHANGED builderVars

\* the load event of the iframe of accordion f, whose onload attribute is
\*     document.getElementById('loading_...').style.display='none';
\*     this.style.display='block';
\* The event is dispatched when the iframe has loaded a document: its source
\* once src is set, and also the initial empty document of an iframe that has
\* no src yet, so it may come before any checkbox is checked and before
\* DOMContentLoaded.  A lookup that finds no element makes the first
\* statement throw, and the iframe stays as it is.  A dispatch that would
\* change nothing is left out.
IframeOnload(f) ==
    /\ events < MaxEvents
    /\ f \in Frames(document)
    /\ LET ld == LoadingById(document, AccordionAt(document, f).iframe.onload)
       IN  /\ ld # Null
           /\ loadingDisplay[ld] # "none" \/ iframeDisplay[f] # "block"
           /\ loadingDisplay' = [loadingDisplay EXCEPT ![ld] = "none"]
    /\ iframeDisplay' = [iframeDisplay EXCEPT ![f] = "block"]
    /\ events' = events + 1
    /\ UNCHANGED <<document, loadHandler, pageDisplay, linkSelected,
                   placeholderDisplay, tabChecked, iframeSrc>>
    /\ UNCHANGED builderVars

\* the document generate() returns for the records, open in a browser; the
\* builder that made it is not called again
OpenedReport(uname, records) ==
    /\ Constructed(uname, records, None, NoFile)
    /\ Opened(generate(uname, records).value)

\* reports of 0..MaxRecords records, all with text or all without
InitBrowser ==
    \E n \in 0..MaxRecords, mask \in {0, 3} :
        OpenedReport("jack", RecordList(n, 0, mask, NoDefect))

NextBrowser ==
    \/ DOMContentLoaded
    \/ \E k \in 1..total_pages(MaxRecords + 1) : ClickPageLink(k)

SpecBrowser == InitBrowser /\ [][NextBrowser]_vars

\* n records of which those at the zero-based positions in F have no text
RecordsWithout(n, F) == [j \in 1..n |-> MkTweet(j, (j - 1) \in F)]

\* reports of at most one record, or of a full page and more up to
\* MaxFrameRecords records, of which up to two records, each the first or the
\* last of a page, have accordions
InitFrames ==
    \E n \in 0..MaxFrameRecords :
        \E F \in SUBSET DefectPositions(n) :
            /\ n <= 1 \/ n >= tweets_per_page
            /\ Cardinality(F) <= 2
            /\ OpenedReport("jack", RecordsWithout(n, F))

NextFrames ==
    \/ DOMContentLoaded
    \/ \E k \in 1..total_pages(MaxFrameRecords + 1) : ClickPageLink(k)
    \/ \E f \in Frames(document) : ChangeTab(f)
    \/ \E f \in Frames(document) : IframeOnload(f)

SpecFrames == InitFrames /\ [][NextFrames]_vars

-----------------------------------------------------------------------------
(* Properties of generate() *)

\* the last call was generate() and it returned a document
Returned == ret.op = "generate" /\ ret.ok

\* ceil(n / p), from its definition: the least k with k * p >= n
Ceil(n, p) == CHOOSE k \in 0..n : k * p >= n /\ \A m \in 0..(k - 1) : m * p < n

\* the cards of a document, page after page
RECURSIVE CardsFrom(_, _)
CardsFrom(pages, k) ==
    IF k > Len(pages) THEN << >>
    ELSE pages[k].tweets \o CardsFrom(pages, k + 1)

Cards(doc) == CardsFrom(doc.pages, 1)

\* the card shows the record: its URL key line carries the record's URL key
\* (every record of the input family has a URL key of its own)
ShowsRecord(card, tweet) ==
    card.fields[5].text = pystr(tweet["archived_urlkey"])

\* C1: for N records and page size 24 the document has ceil(N/24) pages,
\* page k holds exactly the records at zero-based positions
\* [(k-1)*24, min(k*24, N)), and the pages' cards, in page order, are the
\* records in their original order, each once.
C1_PagesPartitionRecords ==
    Returned =>
        LET N   == Len(json_path)
            P   == 24
            doc == ret.value
        IN  /\ Len(doc.pages) = Ceil(N, P)
            /\ \A k \in 1..Len(doc.pages) :
                  /\ Len(doc.pages[k].tweets) = Min(k * P, N) - (k - 1) * P
                  /\ \A j \in 1..Len(doc.pages[k].tweets) :
                        ShowsRecord(doc.pages[k].tweets[j],
                                    json_path[(k - 1) * P + j])
            /\ Len(Cards(doc)) = N
            /\ \A i \in 1..N : ShowsRecord(Cards(doc)[i], json_path[i])

\* N = 30 was rendered: two pages, of 24 and of 6 cards
C1_Witness ==
    /\ Returned
    /\ Len(json_path) = 30
    /\ Len(ret.value.pages) = 2
    /\ Len(ret.value.pages[1].tweets) = 24
    /\ Len(ret.value.pages[2].tweets) = 6

\* C2: the document has exactly total_pages page containers, with ids
\* page_1..page_total_pages, and exactly total_pages pagination links, with
\* ids page_link_1.. and labels 1..; for no record at all it has no page
\* container and no link, and the heading still carries the username.
C2_ContainersAndLinks ==
    Returned =>
        LET T   == Ceil(Len(json_path), 24)
            doc == ret.value
        IN  /\ Len(doc.pages) = T
            /\ \A k \in 1..T : doc.pages[k].id = <<"page_", k>>
            /\ Len(doc.pagination) = T
            /\ \A k \in 1..T :
                  /\ doc.pagination[k].id = <<"page_link_", k>>
                  /\ doc.pagination[k].text = k
                  /\ doc.pagination[k].onclick = k
            /\ doc.h1 = <<"@", username, "'s archived tweets">>
            /\ Len(json_path) = 0 => doc.pages = << >> /\ doc.pagination = << >>

\* the empty record list was rendered
C2_Witness ==
    /\ Returned
    /\ json_path = << >>
    /\ ret.value.pages = << >>
    /\ ret.value.h1[2] = username

\* the four accordions of a card, by the label they carry
HasFourAccordions(card) ==
    /\ Len(card.accordions) = 4
    /\ card.accordions[1].label.key = <<"Archived", " ", "Tweet">>
    /\ card.accordions[2].label.key = <<"Parsed", " ", "Archived", " ", "Tweet">>
    /\ card.accordions[3].label.key = <<"Original", " ", "Tweet">>
    /\ card.accordions[4].label.key = <<"Parsed", " ", "Tweet">>

\* the three plain-text content fields of a card
HasThreeContentFields(card) ==
    /\ Len(card.content) = 3
    /\ card.content[1].label = "Available Tweet Content:"
    /\ card.content[2].label = "Available Tweet Is Retweet:"
    /\ card.content[3].label = "Available Tweet Username:"

\* C3: every card renders exactly one of the two content blocks: four
\* accordions and no plain-text content field when the record's
\* available_tweet_text is falsy, the three plain-text content fields and no
\* accordion when it is truthy.
C3_ExactlyOneBlock ==
    Returned =>
        \A i \in 1..Len(Cards(ret.value)) :
            LET card == Cards(ret.value)[i]
                text == json_path[i]["available_tweet_text"]
            IN  IF text \in {None, <<"str", 0>>, <<"bool", 0>>, <<"num", 0>>}
                THEN HasFourAccordions(card) /\ card.content = << >>
                ELSE HasThreeContentFields(card) /\ card.accordions = << >>

\* a document with a card of each kind, one for an empty text
C3_Witness ==
    /\ Returned
    /\ \E i, j \in 1..Len(json_path) :
          /\ json_path[i]["available_tweet_text"] = <<"str", 0>>
          /\ HasFourAccordions(Cards(ret.value)[i])
          /\ json_path[j]["available_tweet_text"][2] > 0
          /\ HasThreeContentFields(Cards(ret.value)[j])

\* C4: the document has one card per record, and the i-th card shows the
\* i-th record's four URLs as links, its URL key, its formatted and its raw
\* timestamp, its mimetype, status code, digest and length, whichever content
\* block the card has.
C4_CardsShowRecords ==
    Returned =>
        /\ Len(Cards(ret.value)) = Len(json_path)
        /\ \A i \in 1..Len(json_path) :
              LET f == Cards(ret.value)[i].fields
                  t == json_path[i]
              IN  /\ Len(f) = 10
                  /\ \A c \in 1..4 :
                        /\ f[c].href = t[IframeFields[c]]
                        /\ f[c].text = t[IframeFields[c]]
                  /\ f[5].text = t["archived_urlkey"]
                  /\ f[6].text = timestamp_parser(t["archived_timestamp"])
                  /\ f[6].raw = t["archived_timestamp"]
                  /\ f[7].text = t["archived_mimetype"]
                  /\ f[8].text = t["archived_statuscode"]
                  /\ f[9].text = t["archived_digest"]
                  /\ f[10].text = t["archived_length"]

\* three pages of cards were rendered, of both kinds
C4_Witness ==
    /\ Returned
    /\ Len(json_path) > 48
    /\ Len(Cards(ret.value)) = Len(json_path)
    /\ Cards(ret.value)[48].accordions # << >>
    /\ Cards(ret.value)[49].accordions = << >>

\* the fields generate() needs of a record: all but the retweet flag and the
\* attributed username, which it needs only of a record whose text is truthy
Required(tweet) ==
    IF /\ "available_tweet_text" \in DOMAIN tweet
       /\ tweet["available_tweet_text"] \notin
              {None, <<"str", 0>>, <<"bool", 0>>, <<"num", 0>>}
    THEN FieldSet
    ELSE FieldSet \ {"available_tweet_is_RT", "available_tweet_info"}

\* C6 as stated: a record that lacks any of the fields of a tweet record
\* makes generate() fail.
C6_AnyMissingFieldFails ==
    (ret.op = "generate" /\ \E i \in 1..Len(json_path) :
                                DOMAIN json_path[i] # FieldSet)
        => ~ret.ok

\* C6, amended: generate() fails with KeyError and returns no document iff
\* some record lacks a field generate() looks up in it (available_tweet_text,
\* the four URLs, URL key, timestamp, mimetype, status code, digest, length,
\* and, when its text is truthy, the retweet flag and the attributed
\* username), wherever that record is; the failed call leaves the records,
\* the username, the output path and the file as they were.
C6_MissingReadFieldFails ==
    /\ [](ret.op = "generate" =>
             IF \E i \in 1..Len(json_path) :
                    ~(Required(json_path[i]) \subseteq DOMAIN json_path[i])
             THEN /\ ~ret.ok
                  /\ ret.exc = "KeyError"
                  /\ "value" \notin DOMAIN ret
                  /\ generated = {}
             ELSE ret.ok)
    /\ [][(ret'.op = "generate" /\ ~ret'.ok) =>
             /\ json_path' = json_path
             /\ username' = username
             /\ html_file_path' = html_file_path
             /\ fs' = fs
             /\ generated' = generated]_vars

\* generate() failed on the last record of the second page, after 47
\* well-formed records
C6_Witness ==
    /\ ret.op = "generate"
    /\ ~ret.ok
    /\ ret.index = 47
    /\ \A i \in 1..47 : DOMAIN json_path[i] = FieldSet

-----------------------------------------------------------------------------
(* Properties of save() and of the builder's state *)

\* the code points a UTF-8 decoder reads from the bytes of a file
RECURSIVE Utf8Decode(_)
Utf8Decode(b) ==
    IF b = << >> THEN << >>
    ELSE IF b[1] < 128 THEN << b[1] >> \o Utf8Decode(SubSeq(b, 2, Len(b)))
    ELSE IF b[1] < 224
         THEN << (b[1] - 192) * 64 + (b[2] - 128) >>
              \o Utf8Decode(SubSeq(b, 3, Len(b)))
    ELSE IF b[1] < 240
         THEN << (b[1] - 224) * 4096 + (b[2] - 128) * 64 + (b[3] - 128) >>
              \o Utf8Decode(SubSeq(b, 4, Len(b)))
         ELSE << (b[1] - 240) * 262144 + (b[2] - 128) * 4096
                 + (b[3] - 128) * 64 + (b[4] - 128) >>
              \o Utf8Decode(SubSeq(b, 5, Len(b)))

\* C7: after a successful save(s) the file at html_file_path, read back and
\* decoded, is exactly s, whatever the file held before and however many
\* saves came earlier: the last save wins and nothing is appended.
C7_SaveRoundTrip ==
    (ret.op = "save" /\ ret.ok) =>
        /\ fs.exists
        /\ Utf8Decode(fs.bytes) = ret.arg

\* a two-character string with a three-byte character was saved
C7_Witness ==
    /\ ret.op = "save"
    /\ ret.ok
    /\ ret.arg = << 8599, 10 >>
    /\ fs.bytes = << 226, 134, 151, 10 >>

\* C8: generate() changes neither the records, the username, the output
\* path nor the file; every generate() call on a builder returns the same
\* string, also with save() calls in between; the records never change after
\* construction, and only save() changes the file.
C8_GenerateIsPure ==
    /\ [](Cardinality(generated) <= 1)
    /\ [][/\ json_path' = json_path
          /\ username' = username
          /\ html_file_path' = html_file_path
          /\ ret'.op = "generate" => fs' = fs
          /\ fs' # fs => ret'.op = "save"]_vars

\* generate() has returned and a later save() has written the file
C8_Witness ==
    /\ Cardinality(generated) = 1
    /\ Len(json_path) = 2
    /\ ret.op = "save"
    /\ ret.ok
    /\ fs.bytes = << 97 >>

-----------------------------------------------------------------------------
(* Properties of the emitted script *)

\* the page containers that are displayed
Displayed == {k \in DOMAIN pageDisplay : pageDisplay[k] = "block"}

\* the pagination links that carry the selected mark
Selected == {k \in DOMAIN linkSelected : linkSelected[k]}

\* C5 as stated: once the load handler has run, and after any clicks on
\* pagination links, exactly one page container is displayed and exactly its
\* link is selected; that page is page 1 after load and page p after
\* showPage(p).
C5_ExactlyOnePageShown ==
    /\ [](loadHandler \in {"done", "threw"} =>
             \E p \in 1..Len(document.pages) :
                 Displayed = {p} /\ Selected = {p})
    /\ [][(loadHandler = "pending" /\ loadHandler' # "pending") =>
             (Displayed' = {1} /\ Selected' = {1})]_vars
    /\ [][\A k \in 1..Len(document.pagination) :
             ClickPageLink(k) => (Displayed' = {k} /\ Selected' = {k})]_vars

\* C5, amended: for a document of N >= 1 records, once the load handler has
\* run, and after any clicks on pagination links, exactly one page container
\* is displayed and exactly its link is selected; that page is page 1 after
\* load and page p after showPage(p).
C5_OnePageShownWhenNonEmpty ==
    /\ []((loadHandler \in {"done", "threw"} /\ Len(json_path) >= 1) =>
             \E p \in 1..Len(document.pages) :
                 Displayed = {p} /\ Selected = {p})
    /\ [][(loadHandler = "pending" /\ loadHandler' # "pending"
           /\ Len(json_path) >= 1) =>
             (Displayed' = {1} /\ Selected' = {1})]_vars
    /\ [][\A k \in 1..Len(document.pagination) :
             ClickPageLink(k) => (Displayed' = {k} /\ Selected' = {k})]_vars

\* the third page of a three-page document is the one shown
C5_Witness ==
    /\ loadHandler = "done"
    /\ Len(document.pages) = 3
    /\ Displayed = {3}
    /\ Selected = {3}

\* C10: for every N >= 0 the load handler runs to completion: it shows the
\* first page alone and hides the placeholder loading_first_page, so once
\* the handler has run the placeholder is hidden.
C10_LoadHandlerCompletes ==
    loadHandler # "pending" =>
        /\ loadHandler = "done"
        /\ placeholderDisplay = "none"

\* the zero-based position, in json_path, of the record accordion f belongs to
RecordOfFrame(f) ==
    Len(CardsFrom(SubSeq(document.pages, 1, f[1] - 1), 1)) + f[2]

\* the URL of the record of accordion f for the concern of f
UrlOfFrame(f) == json_path[RecordOfFrame(f)][IframeFields[f[3]]]

\* C9: every iframe starts without a source; the ids tab_, loading_ and
\* iframe_{i}_{c} are unique in the document; a checkbox that becomes checked
\* sets the source of its own accordion's iframe to its record's URL for its
\* concern, and the source of an iframe changes in no other step: not when
\* another accordion is expanded, not when an accordion is collapsed.
C9_LazyFrameSources ==
    /\ [](\A f \in Frames(document) :
             /\ AccordionAt(document, f).iframe.src = None
             /\ events = 0 => iframeSrc[f] = None
             /\ iframeSrc[f] \in {None, UrlOfFrame(f)}
             /\ \A g \in Frames(document) \ {f} :
                   /\ AccordionAt(document, f).input.id
                          # AccordionAt(document, g).input.id
                   /\ AccordionAt(document, f).loading.id
                          # AccordionAt(document, g).loading.id
                   /\ AccordionAt(document, f).iframe.id
                          # AccordionAt(document, g).iframe.id)
    /\ [][\A f \in Frames(document) :
             /\ (tabChecked'[f] /\ ~tabChecked[f]) =>
                    iframeSrc'[f] = UrlOfFrame(f)
             /\ iframeSrc'[f] # iframeSrc[f] =>
                    (tabChecked'[f] /\ ~tabChecked[f])]_vars

\* an accordion of the second page is expanded and has its source, while an
\* accordion of the first page, never expanded, has none
C9_Witness ==
    \E f, g \in Frames(document) :
        /\ f[1] = 2
        /\ tabChecked[f]
        /\ iframeSrc[f] = UrlOfFrame(f)
        /\ g[1] = 1
        /\ g[2] = f[2]
        /\ iframeSrc[g] = None

=============================================================================
